---- MODULE Spec2Model ----
(***************************************************************************)
(* A model of bin/plugin/commands/performance.js: the statistics helpers   *)
(* (average, median, formatTime, curateResults), the per-branch set-up     *)
(* (setUpGitBranch), the repeated suite run (runTestSuite) and the session *)
(* driver (runPerformanceTests).                                           *)
(*                                                                         *)
(* JavaScript numbers are modelled as exact rationals plus the three       *)
(* non-finite values NaN, Infinity and -Infinity.  JavaScript objects are  *)
(* modelled as sequences of <<key, value>> entries in key-insertion order. *)
(***************************************************************************)
EXTENDS Integers, Sequences, FiniteSets, TLC

\* ------------------------------------------------------------------------
\* Bounds of the model
\* ------------------------------------------------------------------------

\* longest branch list passed to runPerformanceTests
MaxBranches == 2

\* longest array handed to median when it is exercised on its own
MaxLen == 4

\* ------------------------------------------------------------------------
\* JavaScript numbers
\* ------------------------------------------------------------------------

Abs(x) == IF x < 0 THEN -x ELSE x

RECURSIVE GCD(_, _)
GCD(a, b) == IF b = 0 THEN a ELSE GCD(b, a % b)

\* the rational n/d (d > 0) in lowest terms
Rat(n, d) ==
    LET g == GCD(Abs(n), d)
    IN  [k |-> "fin", n |-> n \div g, d |-> d \div g]

Num(n) == Rat(n, 1)
NaN == [k |-> "NaN", n |-> 0, d |-> 1]
PosInf == [k |-> "Infinity", n |-> 1, d |-> 1]
NegInf == [k |-> "-Infinity", n |-> -1, d |-> 1]

IsNaN(x) == x.k = "NaN"

\* isFinite( x )
isFinite(x) == x.k = "fin"

\* a < b on numbers; false whenever NaN is involved
Less(a, b) ==
    CASE IsNaN(a) \/ IsNaN(b) -> FALSE
      [] a.k = "-Infinity" -> b.k # "-Infinity"
      [] b.k = "Infinity" -> a.k # "Infinity"
      [] a.k = "Infinity" \/ b.k = "-Infinity" -> FALSE
      [] OTHER -> a.n * b.d < b.n * a.d

Leq(a, b) == ~IsNaN(a) /\ ~IsNaN(b) /\ ~Less(b, a)

\* a + b
Plus(a, b) ==
    CASE IsNaN(a) \/ IsNaN(b) -> NaN
      [] ~isFinite(a) /\ ~isFinite(b) -> IF a = b THEN a ELSE NaN
      [] ~isFinite(a) -> a
      [] ~isFinite(b) -> b
      [] OTHER -> Rat(a.n * b.d + b.n * a.d, a.d * b.d)

\* a / m for an integer m >= 0 (an array length)
DivideBy(a, m) ==
    CASE IsNaN(a) -> NaN
      [] m = 0 -> (IF isFinite(a)
                   THEN (IF a.n = 0 THEN NaN ELSE IF a.n > 0 THEN PosInf ELSE NegInf)
                   ELSE a)
      [] ~isFinite(a) -> a
      [] OTHER -> Rat(a.n, a.d * m)

\* Math.round( x ): the nearest integer, an exact half going towards +Infinity
MathRound(x) ==
    IF isFinite(x) THEN Num((2 * x.n + x.d) \div (2 * x.d)) ELSE x

\* the sign of the comparator ( a, b ) => a - b as Array.prototype.sort reads
\* it: a NaN difference counts as 0
Compare(a, b) ==
    CASE IsNaN(a) \/ IsNaN(b) -> 0
      [] a = b -> 0
      [] Less(a, b) -> -1
      [] OTHER -> 1

\* ------------------------------------------------------------------------
\* Sequence helpers
\* ------------------------------------------------------------------------

Range(s) == {s[j] : j \in 1..Len(s)}

RECURSIVE SeqsUpTo(_, _)
SeqsUpTo(S, m) ==
    IF m = 0 THEN {<<>>}
    ELSE LET shorter == SeqsUpTo(S, m - 1)
         IN  shorter \cup {Append(q, x) : q \in {r \in shorter : Len(r) = m - 1}, x \in S}

\* array.reduce( ( a, b ) => a + b, 0 ): the elements added up from the left
RECURSIVE Sum(_)
Sum(array) ==
    IF array = <<>> THEN Num(0)
    ELSE Plus(Sum(SubSeq(array, 1, Len(array) - 1)), array[Len(array)])

\* insert x into the ascending array sorted, after the elements it does not
\* precede (a stable insertion)
RECURSIVE InsertSorted(_, _)
InsertSorted(sorted, x) ==
    IF sorted = <<>> THEN <<x>>
    ELSE IF Compare(x, Head(sorted)) < 0 THEN <<x>> \o sorted
    ELSE <<Head(sorted)>> \o InsertSorted(Tail(sorted), x)

\* array.sort( ( a, b ) => a - b ) on a copy of array.  With a NaN among
\* finite elements the comparator is not consistent and the engine may order
\* the array in any way; this is the order a stable insertion sort produces.
RECURSIVE SortNumeric(_)
SortNumeric(array) ==
    IF array = <<>> THEN <<>>
    ELSE InsertSorted(SortNumeric(SubSeq(array, 1, Len(array) - 1)), array[Len(array)])

\* ------------------------------------------------------------------------
\* The statistics helpers
\* ------------------------------------------------------------------------

\* a * m for an integer m > 0
TimesInt(a, m) == IF isFinite(a) THEN Rat(a.n * m, a.d) ELSE a

\* Math.min( ...array ): Infinity for no argument, NaN if any argument is NaN
RECURSIVE MathMin(_)
MathMin(array) ==
    IF array = <<>> THEN PosInf
    ELSE LET rest == MathMin(Tail(array))
             first == Head(array)
         IN  IF IsNaN(first) \/ IsNaN(rest) THEN NaN
             ELSE IF Less(rest, first) THEN rest ELSE first

\* Math.max( ...array ): -Infinity for no argument, NaN if any argument is NaN
RECURSIVE MathMax(_)
MathMax(array) ==
    IF array = <<>> THEN NegInf
    ELSE LET rest == MathMax(Tail(array))
             first == Head(array)
         IN  IF IsNaN(first) \/ IsNaN(rest) THEN NaN
             ELSE IF Less(first, rest) THEN rest ELSE first

\* average( array ) with a guard that makes the mean of no element 0
averageGuarded(array) ==
    IF array = <<>> THEN Num(0) ELSE DivideBy(Sum(array), Len(array))

\* average( array ): the sum from 0, divided by the length (0 / 0 is NaN)
average(array) == DivideBy(Sum(array), Len(array))

\* median( array ) with its even case dropped: always the element at mid
medianNoAverage(array) ==
    LET mid == Len(array) \div 2
        numbers == SortNumeric(array)
    IN  IF array = <<>> THEN NaN ELSE numbers[mid + 1]

\* median( array ): numbers is a sorted copy, array itself is not touched.
\* numbers[ mid ] of the source is numbers[mid + 1] here (indices from 1);
\* on the empty array both operands of the even case are undefined: NaN.
median(array) ==
    LET mid == Len(array) \div 2
        numbers == SortNumeric(array)
    IN  IF Len(array) % 2 # 0
        THEN numbers[mid + 1]
        ELSE IF array = <<>> THEN NaN
        ELSE DivideBy(Plus(numbers[mid], numbers[mid + 1]), 2)

\* Math.pow( 10, 2 )
factor == 100

\* formatTime( number ) truncating instead of rounding
formatTimeFloor(number) ==
    IF isFinite(number)
    THEN DivideBy(Num((number.n * factor) \div number.d), factor)
    ELSE number

\* formatTime( number )
formatTime(number) == DivideBy(MathRound(TimesInt(number, factor)), factor)

\* the keys of WPRawPerformanceResults
RawKeys == <<"load", "type", "focus", "inserterOpen", "inserterHover">>

\* the keys of WPPerformanceResults, in the order curateResults writes them
CuratedKeys ==
    <<"load", "type", "minType", "maxType", "focus", "minFocus", "maxFocus",
      "inserterOpen", "minInserterOpen", "maxInserterOpen",
      "inserterHover", "minInserterHover", "maxInserterHover">>

\* curateResults( results ) with minFocus and maxFocus read from results.type
curateResultsWrongSource(results) ==
    [load |-> average(results.load),
     type |-> average(results.type),
     minType |-> MathMin(results.type),
     maxType |-> MathMax(results.type),
     focus |-> average(results.focus),
     minFocus |-> MathMin(results.type),
     maxFocus |-> MathMax(results.type),
     inserterOpen |-> average(results.inserterOpen),
     minInserterOpen |-> MathMin(results.inserterOpen),
     maxInserterOpen |-> MathMax(results.inserterOpen),
     inserterHover |-> average(results.inserterHover),
     minInserterHover |-> MathMin(results.inserterHover),
     maxInserterHover |-> MathMax(results.inserterHover)]

\* curateResults( results )
curateResults(results) ==
    [load |-> average(results.load),
     type |-> average(results.type),
     minType |-> MathMin(results.type),
     maxType |-> MathMax(results.type),
     focus |-> average(results.focus),
     minFocus |-> MathMin(results.focus),
     maxFocus |-> MathMax(results.focus),
     inserterOpen |-> average(results.inserterOpen),
     minInserterOpen |-> MathMin(results.inserterOpen),
     maxInserterOpen |-> MathMax(results.inserterOpen),
     inserterHover |-> average(results.inserterHover),
     minInserterHover |-> MathMin(results.inserterHover),
     maxInserterHover |-> MathMax(results.inserterHover)]

\* the object runTestSuite hands to mapValues: per key, the values of the
\* repeats in the order they ran
columns(results) ==
    [key \in Range(CuratedKeys) |-> [j \in 1..Len(results) |-> results[j][key]]]

\* the value runTestSuite returns for the curated results of its repeats:
\* const medians = mapValues( { ... }, median ), then mapValues( medians, formatTime )
summarize(results) ==
    LET object == columns(results)
        medians == [key \in DOMAIN object |-> median(object[key])]
    IN  [key \in DOMAIN medians |-> formatTime(medians[key])]

\* ------------------------------------------------------------------------
\* The WordPress zip version
\* ------------------------------------------------------------------------
\* A version string is a sequence of one-character strings.

Digits == {"0", "1", "2", "3", "4", "5", "6", "7", "8", "9"}
LineTerminators == {"\n", "\r"}

IsDigits(str) == str # <<>> /\ \A j \in 1..Len(str) : str[j] \in Digits

\* the matches of /^(\d+\.\d+).0/ at the start of str, as <<a, b>>: a digits,
\* a dot, b digits, one character that is no line terminator, and "0"
regexMatches(str) ==
    {m \in (1..Len(str)) \X (1..Len(str)) :
        /\ m[1] + m[2] + 3 <= Len(str)
        /\ IsDigits(SubSeq(str, 1, m[1]))
        /\ str[m[1] + 1] = "."
        /\ IsDigits(SubSeq(str, m[1] + 2, m[1] + 1 + m[2]))
        /\ str[m[1] + m[2] + 2] \notin LineTerminators
        /\ str[m[1] + m[2] + 3] = "0"}

\* the match the backtracking engine reports: both \d+ are greedy, the first
\* one decided first
regexMatch(str) ==
    CHOOSE m \in regexMatches(str) :
        \A o \in regexMatches(str) :
            o[1] < m[1] \/ (o[1] = m[1] /\ o[2] <= m[2])

\* options.wpVersion.replace( /^(\d+\.\d+).0/, '$1' ): the first match is
\* replaced by its group 1, the text after the match is kept
zipVersion(wpVersion) ==
    IF regexMatches(wpVersion) = {} THEN wpVersion
    ELSE LET m == regexMatch(wpVersion)
         IN  SubSeq(wpVersion, 1, m[1] + 1 + m[2])
               \o SubSeq(wpVersion, m[1] + m[2] + 4, Len(wpVersion))

\* ------------------------------------------------------------------------
\* JavaScript objects: entries <<key, value>> in key-insertion order
\* ------------------------------------------------------------------------

Keys(object) == [j \in 1..Len(object) |-> object[j][1]]

Has(object, key) == \E j \in 1..Len(object) : object[j][1] = key

Get(object, key) == object[CHOOSE j \in 1..Len(object) : object[j][1] = key][2]

\* { ...object, [ key ]: value }: an existing key keeps its place and takes
\* the new value, a new key goes last
Put(object, key, value) ==
    IF Has(object, key)
    THEN [j \in 1..Len(object) |->
            IF object[j][1] = key THEN <<key, value>> ELSE object[j]]
    ELSE Append(object, <<key, value>>)

\* ------------------------------------------------------------------------
\* The session: runPerformanceTests( branches, options )
\* ------------------------------------------------------------------------

VARIABLES
    args,       \* the arguments of the call: [branches, options]
    pc,         \* the statement runPerformanceTests is at
    branches,   \* the parameter branches (reassigned when it is empty)
    answer,     \* what askForConfirmation resolved with: "none", "yes", "no"
    results,    \* the table: testSuite -> branch -> WPPerformanceResults
    branchIdx,  \* position of `branch` in the for..of over branches
    suiteIdx,   \* position of `testSuite` in the for..of over testSuites
    i,          \* runTestSuite's loop counter
    curated,    \* runTestSuite's local array `results`
    error,      \* the call whose failure rejected the promise, or ""
    calls,      \* every call made to a collaborator, in order
    checkout,   \* per working tree the branch checked out ("" : no such tree)
    core,       \* "core" of the environment's .wp-env.json (<<>> : untouched)
    running,    \* whether the WordPress environment is up
    rendered,   \* the objects console.table printed, in order
    artifacts,  \* the files written by the report: file name -> content
    callee,     \* unit exercise: the helper called
    arg,        \* unit exercise: the argument, as the caller holds it
    ret         \* unit exercise: <<>> before the call, <<value>> after it

sessionVars ==
    <<args, pc, branches, answer, results, branchIdx, suiteIdx, i, curated,
      error, calls, checkout, core, running, rendered, artifacts>>
unitVars == <<callee, arg, ret>>
vars == <<sessionVars, unitVars>>

\* the suites listed the other way round
testSuitesReversed == <<"site-editor", "post-editor">>

\* const testSuites = [ 'post-editor', 'site-editor' ]
testSuites == <<"post-editor", "site-editor">>

\* for ( let i = 0; i < 3; i++ )
Repeats == 3

\* branch names tried as input
BranchNames == {"trunk", "feature"}

\* the contents the test executor can leave in <suite>.test.results.json
RawFiles ==
    {[load |-> <<Num(1200)>>,
      type |-> <<Num(10), Num(20), Num(31)>>,
      focus |-> <<Num(5), Num(8)>>,
      inserterOpen |-> <<Rat(123456, 10000)>>,
      inserterHover |-> <<Num(3), Num(1), Num(2)>>],
     [load |-> <<Num(900)>>,
      type |-> <<Num(40), Num(41)>>,
      focus |-> <<Rat(12345, 1000)>>,
      inserterOpen |-> <<Num(7), Num(7), Num(9)>>,
      inserterHover |-> <<Num(6)>>]}

\* a result file in which the suite measured no typing and no block selection
SparseFile ==
    [load |-> <<Num(700)>>,
     type |-> <<>>,
     focus |-> <<>>,
     inserterOpen |-> <<Num(4), Num(5)>>,
     inserterHover |-> <<Num(2)>>]

\* the contents of the result file per suite: the site-editor run may leave
\* the sequences of metrics it does not measure empty
resultFiles(suite) ==
    IF suite = "post-editor"
    THEN RawFiles
    ELSE {CHOOSE raw \in RawFiles : raw.load = <<Num(900)>>, SparseFile}

\* the option sets tried as input; "" and <<>> stand for an option not given
Options ==
    [ci : BOOLEAN,
     testsBranch : {"", "tests"},
     wpVersion : {<<>>, <<"5", ".", "7", ".", "0">>}]

Inputs == [branches : SeqsUpTo(BranchNames, MaxBranches), options : Options]

Call(op, dir, what, ok) == [op |-> op, dir |-> dir, arg |-> what, ok |-> ok]

\* the branch and the suite the two loops are at
branch == branches[branchIdx]
testSuite == testSuites[suiteIdx]

\* if ( branches.length === 0 ) without the default
defaultBranchesNone(list) == list

\* if ( branches.length === 0 ) { branches = [ 'trunk' ]; }
defaultBranches(list) == IF Len(list) = 0 THEN <<"trunk">> ELSE list

\* a rejected await handled by running the stop step, as a finally would
rejectedThenStop(step) == "stop"

\* a rejected await that runs the call again
rejectedRetry(step) == step

\* a rejected await: nothing catches it, runPerformanceTests rejects
rejected(step) == "Failed"

\* an awaited call whose rejection is swallowed: control moves on regardless
afterIgnoringFailure(step, ok, next) == next

\* where control goes after the awaited call of `step`
after(step, ok, next) == IF ok THEN next ELSE rejected(step)

\* const performanceTestDirectory = await git.clone( ... )
performanceTestDirectory == "perf"

\* the two trees being one and the same: no copy is made
sameDirectory == "perf"

\* const environmentDirectory = getRandomTemporaryPath()
environmentDirectory == "env"

\* for ( let i = 0; i < 3; i++ ) running once more
forRepeatOnceMore(count) == IF count <= Repeats THEN "test" ELSE "return"

\* for ( let i = 0; i < 3; i++ ): the next repeat, or the statements after
\* the loop
forRepeat(count) == IF count < Repeats THEN "test" ELSE "return"

\* the branch loop followed by the report at once, the environment left running
forBranchNoStop(idx) == IF idx <= Len(branches) THEN "discard" ELSE "report"

\* for ( const branch of branches ): the body's first statement, or the
\* statement after the loop
forBranch(idx) == IF idx <= Len(branches) THEN "discard" ELSE "stop"

\* for ( const testSuite of testSuites ) inside the branch loop
forSuite(idx, bidx) == IF idx <= Len(testSuites) THEN "test" ELSE forBranch(bidx)

\* the table update with the spread of results[ testSuite ] left out
insertAlone(table, suite, name, value) == Put(table, suite, <<<<name, value>>>>)

\* results = { ...results, [ testSuite ]: { ...results[ testSuite ], [ branch ]: value } }
insert(table, suite, name, value) ==
    Put(table, suite,
        Put(IF Has(table, suite) THEN Get(table, suite) ELSE <<>>, name, value))

\* the value with its unit: val[ entry ] + ' ms'
withUnit(value) == <<value, "ms">>

\* invertedResult built without the isFinite test: a cell for every value
invertedUnfiltered(byBranch) ==
    IF byBranch = <<>> THEN <<>>
    ELSE [m \in 1..Len(CuratedKeys) |->
            <<CuratedKeys[m],
              [j \in 1..Len(byBranch) |->
                 <<byBranch[j][1], withUnit(byBranch[j][2][CuratedKeys[m]])>>]>>]

\* invertedResult of the report: metric -> branch -> cell, a cell only for
\* a finite value, a row for every metric of the first branch
inverted(byBranch) ==
    IF byBranch = <<>> THEN <<>>
    ELSE [m \in 1..Len(CuratedKeys) |->
            <<CuratedKeys[m],
              LET finite == SelectSeq(byBranch,
                                LAMBDA e : isFinite(e[2][CuratedKeys[m]]))
              IN  [j \in 1..Len(finite) |->
                     <<finite[j][1], withUnit(finite[j][2][CuratedKeys[m]])>>]>>]

\* JSON.stringify of a number: a non-finite one is written as null
Null == [k |-> "null", n |-> 0, d |-> 1]
jsonNumber(x) == IF isFinite(x) THEN x ELSE Null

\* JSON.stringify( results[ testSuite ], null, 2 )
stringify(byBranch) ==
    [j \in 1..Len(byBranch) |->
        <<byBranch[j][1],
          [key \in DOMAIN byBranch[j][2] |-> jsonNumber(byBranch[j][2][key])]>>]

resultsFilename(suite) == <<suite, "-performance-results.json">>

\* ------------------------------------------------------------------------
\* Initial state and the steps of runPerformanceTests
\* ------------------------------------------------------------------------

unitIdle == callee = "" /\ arg = <<>> /\ ret = <<>>

sessionStart(input) ==
    /\ args = input
    /\ pc = "start"
    /\ branches = input.branches
    /\ answer = "none"
    /\ results = <<>>
    /\ branchIdx = 1
    /\ suiteIdx = 1
    /\ i = 0
    /\ curated = <<>>
    /\ error = ""
    /\ calls = <<>>
    /\ checkout = [perf |-> "", env |-> ""]
    /\ core = <<>>
    /\ running = FALSE
    /\ rendered = <<>>
    /\ artifacts = <<>>

Init == (\E input \in Inputs : sessionStart(input)) /\ unitIdle

\* an awaited call to a collaborator: it is logged, and control moves on or
\* the session fails
Await(step, op, dir, what, ok, next) ==
    /\ calls' = Append(calls, Call(op, dir, what, ok))
    /\ pc' = after(step, ok, next)
    /\ error' = IF ok THEN error ELSE step

\* lines 196-198
Normalize ==
    /\ pc = "start"
    /\ branches' = defaultBranches(branches)
    /\ pc' = "confirm"
    /\ UNCHANGED <<args, answer, results, branchIdx, suiteIdx, i, curated, error,
                   calls, checkout, core, running, rendered, artifacts, unitVars>>

\* askForConfirmation( prompt ): the values it can resolve with
askForConfirmation == BOOLEAN

\* lines 207-209: the value askForConfirmation resolves with is not read
Confirm ==
    /\ pc = "confirm"
    /\ IF args.options.ci
       THEN /\ pc' = "clone"
            /\ UNCHANGED <<answer, calls>>
       ELSE \E granted \in askForConfirmation :
              /\ answer' = IF granted THEN "yes" ELSE "no"
              /\ calls' = Append(calls, Call("askForConfirmation", "", "Ready to go? ", TRUE))
              /\ pc' = "clone"
    /\ UNCHANGED <<args, branches, results, branchIdx, suiteIdx, i, curated, error,
                   checkout, core, running, rendered, artifacts, unitVars>>

\* line 212
Clone ==
    /\ pc = "clone"
    /\ \E ok \in BOOLEAN :
         /\ Await("clone", "clone", performanceTestDirectory, "gitRepositoryURL", ok, "testsBranch")
         /\ checkout' = IF ok THEN [checkout EXCEPT ![performanceTestDirectory] = "trunk"] ELSE checkout
    /\ UNCHANGED <<args, branches, answer, results, branchIdx, suiteIdx, i, curated,
                   core, running, rendered, artifacts, unitVars>>

\* lines 214-224
CheckoutTestsBranch ==
    /\ pc = "testsBranch"
    /\ IF args.options.testsBranch = ""
       THEN /\ pc' = "install"
            /\ UNCHANGED <<calls, error, checkout>>
       ELSE \E ok \in BOOLEAN :
              /\ Await("testsBranch", "checkoutRemoteBranch", performanceTestDirectory,
                       args.options.testsBranch, ok, "install")
              /\ checkout' = IF ok
                             THEN [checkout EXCEPT ![performanceTestDirectory] = args.options.testsBranch]
                             ELSE checkout
    /\ UNCHANGED <<args, branches, answer, results, branchIdx, suiteIdx, i, curated,
                   core, running, rendered, artifacts, unitVars>>

\* lines 237-240
Install ==
    /\ pc = "install"
    /\ \E ok \in BOOLEAN :
         Await("install", "runShellScript", performanceTestDirectory,
               "npm install && npm run build:packages", ok, "copy")
    /\ UNCHANGED <<args, branches, answer, results, branchIdx, suiteIdx, i, curated,
                   checkout, core, running, rendered, artifacts, unitVars>>

\* lines 241-243: the environment tree is a copy of the tests tree
Copy ==
    /\ pc = "copy"
    /\ \E ok \in BOOLEAN :
         /\ Await("copy", "runShellScript", "", "cp -R perf env", ok,
                  IF args.options.wpVersion = <<>> THEN "start-env" ELSE "readConf")
         /\ checkout' = IF ok THEN [checkout EXCEPT ![environmentDirectory] = checkout[performanceTestDirectory]] ELSE checkout
    /\ UNCHANGED <<args, branches, answer, results, branchIdx, suiteIdx, i, curated,
                   core, running, rendered, artifacts, unitVars>>

\* line 266: readJSONFile( confPath )
ReadConf ==
    /\ pc = "readConf"
    /\ \E ok \in BOOLEAN :
         Await("readConf", "readJSONFile", environmentDirectory, ".wp-env.json", ok, "writeConf")
    /\ UNCHANGED <<args, branches, answer, results, branchIdx, suiteIdx, i, curated,
                   checkout, core, running, rendered, artifacts, unitVars>>

\* lines 253-271: the config is written back with core set to the zip URL
WriteConf ==
    /\ pc = "writeConf"
    /\ \E ok \in BOOLEAN :
         /\ Await("writeConf", "writeFileSync", environmentDirectory, ".wp-env.json", ok, "start-env")
         /\ core' = IF ok THEN zipVersion(args.options.wpVersion) ELSE core
    /\ UNCHANGED <<args, branches, answer, results, branchIdx, suiteIdx, i, curated,
                   checkout, running, rendered, artifacts, unitVars>>

\* line 273
StartEnv ==
    /\ pc = "start-env"
    /\ \E ok \in BOOLEAN :
         /\ Await("start-env", "runShellScript", environmentDirectory, "npm run wp-env start", ok,
                  forBranch(branchIdx))
         /\ running' = (ok \/ running)
    /\ UNCHANGED <<args, branches, answer, results, branchIdx, suiteIdx, i, curated,
                   checkout, core, rendered, artifacts, unitVars>>

\* setUpGitBranch, line 129
Discard ==
    /\ pc = "discard"
    /\ \E ok \in BOOLEAN :
         Await("discard", "discardLocalChanges", environmentDirectory, "", ok, "checkout")
    /\ UNCHANGED <<args, branches, answer, results, branchIdx, suiteIdx, i, curated,
                   checkout, core, running, rendered, artifacts, unitVars>>

\* setUpGitBranch, line 132
CheckoutBranch ==
    /\ pc = "checkout"
    /\ \E ok \in BOOLEAN :
         /\ Await("checkout", "checkoutRemoteBranch", environmentDirectory, branch, ok, "build")
         /\ checkout' = IF ok THEN [checkout EXCEPT ![environmentDirectory] = branch] ELSE checkout
    /\ UNCHANGED <<args, branches, answer, results, branchIdx, suiteIdx, i, curated,
                   core, running, rendered, artifacts, unitVars>>

\* setUpGitBranch, lines 135-138; on success the suite loop starts
Build ==
    /\ pc = "build"
    /\ \E ok \in BOOLEAN :
         Await("build", "runShellScript", environmentDirectory,
               "rm -rf node_modules packages/*/node_modules && npm install && npm run build",
               ok, forSuite(1, branchIdx + 1))
    /\ suiteIdx' = 1
    /\ UNCHANGED <<args, branches, answer, results, branchIdx, i, curated,
                   checkout, core, running, rendered, artifacts, unitVars>>

\* runTestSuite, lines 152-155
RunTest ==
    /\ pc = "test"
    /\ \E ok \in BOOLEAN :
         Await("test", "runShellScript", performanceTestDirectory, <<"npm run test-performance", testSuite>>,
               ok, "read")
    /\ UNCHANGED <<args, branches, answer, results, branchIdx, suiteIdx, i, curated,
                   checkout, core, running, rendered, artifacts, unitVars>>

\* runTestSuite, lines 156-163: read the result file, curate it, keep it
ReadResults ==
    /\ pc = "read"
    /\ \E ok \in BOOLEAN :
         /\ Await("read", "readJSONFile", performanceTestDirectory,
                  <<testSuite, ".test.results.json">>, ok, forRepeat(i + 1))
         /\ IF ok
            THEN /\ \E rawResults \in resultFiles(testSuite) :
                      curated' = Append(curated, curateResults(rawResults))
                 /\ i' = i + 1
            ELSE UNCHANGED <<curated, i>>
    /\ UNCHANGED <<args, branches, answer, results, branchIdx, suiteIdx,
                   checkout, core, running, rendered, artifacts, unitVars>>

\* runTestSuite, lines 165-185, and the assignment of lines 288-297
Return ==
    /\ pc = "return"
    /\ results' = insert(results, testSuite, branch, summarize(curated))
    /\ curated' = <<>>
    /\ i' = 0
    /\ IF suiteIdx < Len(testSuites)
       THEN /\ suiteIdx' = suiteIdx + 1
            /\ branchIdx' = branchIdx
            /\ pc' = forSuite(suiteIdx + 1, branchIdx + 1)
       ELSE /\ suiteIdx' = 1
            /\ branchIdx' = branchIdx + 1
            /\ pc' = forBranch(branchIdx + 1)
    /\ UNCHANGED <<args, branches, answer, error, calls,
                   checkout, core, running, rendered, artifacts, unitVars>>

\* line 302
StopEnv ==
    /\ pc = "stop"
    /\ \E ok \in BOOLEAN :
         /\ Await("stop", "runShellScript", environmentDirectory, "npm run wp-env stop", ok, "report")
         /\ running' = (running /\ ~ok)
    /\ suiteIdx' = 1
    /\ UNCHANGED <<args, branches, answer, results, branchIdx, i, curated,
                   checkout, core, rendered, artifacts, unitVars>>

\* lines 305-324: Object.entries( results[ testSuite ] ) throws a TypeError
\* when the table has no such suite; otherwise the table is printed
Report ==
    /\ pc = "report"
    /\ IF Has(results, testSuite)
       THEN /\ rendered' = Append(rendered, <<testSuite, inverted(Get(results, testSuite))>>)
            /\ pc' = "write"
            /\ error' = error
       ELSE /\ pc' = rejected("report")
            /\ error' = "report"
            /\ rendered' = rendered
    /\ UNCHANGED <<args, branches, answer, results, branchIdx, suiteIdx, i, curated,
                   calls, checkout, core, running, artifacts, unitVars>>

\* lines 326-330
WriteArtifact ==
    /\ pc = "write"
    /\ \E ok \in BOOLEAN :
         /\ Await("write", "writeFileSync", "", resultsFilename(testSuite), ok,
                  IF suiteIdx < Len(testSuites) THEN "report" ELSE "Done")
         /\ artifacts' = IF ok
                         THEN Put(artifacts, resultsFilename(testSuite),
                                  stringify(Get(results, testSuite)))
                         ELSE artifacts
         /\ suiteIdx' = IF ok /\ suiteIdx < Len(testSuites) THEN suiteIdx + 1 ELSE suiteIdx
    /\ UNCHANGED <<args, branches, answer, results, branchIdx, i, curated,
                   checkout, core, running, rendered, unitVars>>

Next ==
    \/ Normalize
    \/ Confirm
    \/ Clone
    \/ CheckoutTestsBranch
    \/ Install
    \/ Copy
    \/ ReadConf
    \/ WriteConf
    \/ StartEnv
    \/ Discard
    \/ CheckoutBranch
    \/ Build
    \/ RunTest
    \/ ReadResults
    \/ Return
    \/ StopEnv
    \/ Report
    \/ WriteArtifact

Spec == Init /\ [][Next]_vars

\* ------------------------------------------------------------------------
\* The helpers exercised on their own
\* ------------------------------------------------------------------------

\* largest numerator, in ten-thousandths, of the numbers handed to formatTime
MaxTicks == 150

\* longest version string handed to the zip-version rewrite
MaxVersionLen == 5

MedianPool == {Num(1), Num(3), Num(4), Num(5), Num(6), Rat(3, 2)}
MedianInputs == SeqsUpTo(MedianPool, MaxLen)

FormatInputs ==
    {Rat(t, 10000) : t \in (-MaxTicks)..MaxTicks}
        \cup {Rat(123456, 10000), Rat(12345, 1000), NaN, PosInf, NegInf}

SeqPool == {<<Num(10), Num(20), Num(30)>>, <<Num(7), Num(2)>>, <<Rat(5, 2)>>, <<>>}
CurateInputs == [Range(RawKeys) -> SeqPool]

RunPool ==
    RawFiles \cup
    {[load |-> <<Num(1000)>>,
      type |-> <<Num(10), Num(20), Num(30)>>,
      focus |-> <<Rat(1, 8)>>,
      inserterOpen |-> <<Num(1), Num(2)>>,
      inserterHover |-> <<Rat(1, 3)>>],
     [load |-> <<Num(1100)>>,
      type |-> <<Rat(5, 1000), Rat(15, 1000)>>,
      focus |-> <<Num(9), Num(2)>>,
      inserterOpen |-> <<Rat(2, 3)>>,
      inserterHover |-> <<Num(4), Num(8)>>]}
SummarizeInputs ==
    {<<curateResults(r[1]), curateResults(r[2]), curateResults(r[3])>> :
        r \in RunPool \X RunPool \X RunPool}

VersionChars == {"0", "2", "5", "7", "."}
VersionInputs == SeqsUpTo(VersionChars, MaxVersionLen)

\* the caller's array after median( array ): the sort works on [ ...array ]
afterMedian(array) == array

\* the caller's object after curateResults( results ): it is only read
afterCurate(object) == object

InitUnit ==
    /\ sessionStart([branches |-> <<>>,
                     options |-> [ci |-> TRUE, testsBranch |-> "", wpVersion |-> <<>>]])
    /\ ret = <<>>
    /\ \/ callee = "median" /\ arg \in MedianInputs
       \/ callee = "formatTime" /\ arg \in FormatInputs
       \/ callee = "curateResults" /\ arg \in CurateInputs
       \/ callee = "summarize" /\ arg \in SummarizeInputs
       \/ callee = "zipVersion" /\ arg \in VersionInputs

CallMedian ==
    /\ callee = "median" /\ ret = <<>>
    /\ ret' = <<median(arg)>>
    /\ arg' = afterMedian(arg)
    /\ UNCHANGED <<callee, sessionVars>>

CallFormatTime ==
    /\ callee = "formatTime" /\ ret = <<>>
    /\ ret' = <<formatTime(arg)>>
    /\ UNCHANGED <<callee, arg, sessionVars>>

CallCurateResults ==
    /\ callee = "curateResults" /\ ret = <<>>
    /\ ret' = <<curateResults(arg)>>
    /\ arg' = afterCurate(arg)
    /\ UNCHANGED <<callee, sessionVars>>

CallSummarize ==
    /\ callee = "summarize" /\ ret = <<>>
    /\ ret' = <<summarize(arg)>>
    /\ UNCHANGED <<callee, arg, sessionVars>>

CallZipVersion ==
    /\ callee = "zipVersion" /\ ret = <<>>
    /\ ret' = <<zipVersion(arg)>>
    /\ UNCHANGED <<callee, arg, sessionVars>>

NextUnit ==
    \/ CallMedian
    \/ CallFormatTime
    \/ CallCurateResults
    \/ CallSummarize
    \/ CallZipVersion

SpecUnit == InitUnit /\ [][NextUnit]_vars

Returned(f) == callee = f /\ ret # <<>>

\* ------------------------------------------------------------------------
\* Properties of the helpers (checked under SpecUnit)
\* ------------------------------------------------------------------------

CountLess(array, x) == Cardinality({j \in 1..Len(array) : Less(array[j], x)})
CountGreater(array, x) == Cardinality({j \in 1..Len(array) : Less(x, array[j])})

\* x is an element of array with at most below elements under it and at most
\* above elements over it
IsRanked(array, x, below, above) ==
    /\ x \in Range(array)
    /\ CountLess(array, x) <= below
    /\ CountGreater(array, x) <= above

\* m is the median of the non-empty array: its middle element by rank, or the
\* mean of its two middle elements by rank
IsMedianOf(array, m) ==
    LET mid == Len(array) \div 2
    IN  IF Len(array) % 2 = 1
        THEN IsRanked(array, m, mid, mid)
        ELSE \E lo \in Range(array), hi \in Range(array) :
                /\ IsRanked(array, lo, mid - 1, mid)
                /\ IsRanked(array, hi, mid, mid - 1)
                /\ Plus(m, m) = Plus(lo, hi)

C4_MedianState ==
    Returned("median") /\ arg # <<>> =>
        /\ IsMedianOf(arg, ret[1])
        /\ Len(arg) % 2 = 1 => ret[1] \in Range(arg)
        /\ arg = <<Num(5), Num(1), Num(3)>> => ret[1] = Num(3)
        /\ arg = <<Num(4), Num(6)>> => ret[1] = Num(5)

\* C4: median returns the middle element of the ascending numeric sort for an
\* odd length ([5, 1, 3] gives 3), the average of the two middle elements for
\* an even length ([4, 6] gives 5), and leaves its argument as it was.
C4_Median ==
    /\ []C4_MedianState
    /\ [][callee = "median" => arg' = arg]_vars

C4_Witness ==
    /\ Returned("median")
    /\ arg = <<Num(5), Num(1), Num(3)>>
    /\ ret = <<Num(3)>>

\* r is x rounded to the nearest hundredth, an exact half going up
IsRounded(x, r) ==
    /\ isFinite(r)
    /\ (r.n * factor) % r.d = 0
    /\ 2 * factor * Abs(r.n * x.d - x.n * r.d) <= r.d * x.d
    /\ 2 * factor * Abs(r.n * x.d - x.n * r.d) = r.d * x.d => Less(x, r)

\* C5: the values runTestSuite returns are the per-metric medians rounded to
\* the nearest hundredth, an exact half going up (12.3456 and 12.345 both
\* give 12.35), and rounding a rounded value changes nothing.
C5_Rounding ==
    /\ Returned("formatTime") /\ isFinite(arg) =>
          /\ IsRounded(arg, ret[1])
          /\ formatTime(ret[1]) = ret[1]
          /\ arg = Rat(123456, 10000) => ret[1] = Rat(1235, 100)
          /\ arg = Rat(12345, 1000) => ret[1] = Rat(1235, 100)
    /\ Returned("summarize") =>
          /\ DOMAIN ret[1] = Range(CuratedKeys)
          /\ \A key \in Range(CuratedKeys) :
                LET column == [j \in 1..Len(arg) |-> arg[j][key]]
                IN  /\ \E m \in Range(column) :
                          IsMedianOf(column, m) /\ IsRounded(m, ret[1][key])
                    /\ formatTime(ret[1][key]) = ret[1][key]

C5_Witness ==
    /\ Returned("formatTime")
    /\ arg = Rat(12345, 1000)
    /\ ret = <<Rat(1235, 100)>>

RECURSIVE SumOf(_)
SumOf(array) == IF array = <<>> THEN Num(0) ELSE Plus(Head(array), SumOf(Tail(array)))

IsMeanOf(array, m) == isFinite(m) /\ TimesInt(m, Len(array)) = SumOf(array)
IsMinOf(array, m) == m \in Range(array) /\ \A x \in Range(array) : Leq(m, x)
IsMaxOf(array, m) == m \in Range(array) /\ \A x \in Range(array) : Leq(x, m)

DistributionKeys == {"type", "focus", "inserterOpen", "inserterHover"}
MinKey(key) ==
    CASE key = "type" -> "minType"
      [] key = "focus" -> "minFocus"
      [] key = "inserterOpen" -> "minInserterOpen"
      [] key = "inserterHover" -> "minInserterHover"
MaxKey(key) ==
    CASE key = "type" -> "maxType"
      [] key = "focus" -> "maxFocus"
      [] key = "inserterOpen" -> "maxInserterOpen"
      [] key = "inserterHover" -> "maxInserterHover"

NonEmptySample(raw) == \A key \in Range(RawKeys) : raw[key] # <<>>

C6_CurateState ==
    Returned("curateResults") /\ NonEmptySample(arg) =>
        /\ DOMAIN ret[1] =
              {"load"} \cup DistributionKeys
                  \cup {MinKey(key) : key \in DistributionKeys}
                  \cup {MaxKey(key) : key \in DistributionKeys}
        /\ Cardinality(DOMAIN ret[1]) = 13
        /\ IsMeanOf(arg.load, ret[1].load)
        /\ \A key \in DistributionKeys :
              /\ IsMeanOf(arg[key], ret[1][key])
              /\ IsMinOf(arg[key], ret[1][MinKey(key)])
              /\ IsMaxOf(arg[key], ret[1][MaxKey(key)])
              /\ arg[key] = <<Num(10), Num(20), Num(30)>> =>
                    /\ ret[1][key] = Num(20)
                    /\ ret[1][MinKey(key)] = Num(10)
                    /\ ret[1][MaxKey(key)] = Num(30)

\* C6: on a raw sample with non-empty sequences curateResults returns 13
\* entries: the mean of load, and for each distribution metric the mean, the
\* minimum and the maximum of that metric's own sequence ([10, 20, 30] gives
\* 20, 10, 30); the raw sample is left as it was.
C6_Curate ==
    /\ []C6_CurateState
    /\ [][callee = "curateResults" => arg' = arg]_vars

C6_Witness ==
    /\ Returned("curateResults")
    /\ arg.type = <<Num(7), Num(2)>>
    /\ arg.focus = <<Num(10), Num(20), Num(30)>>
    /\ arg.load # <<>> /\ arg.inserterOpen # <<>> /\ arg.inserterHover # <<>>
    /\ ret[1].focus = Num(20) /\ ret[1].minFocus = Num(10) /\ ret[1].maxFocus = Num(30)
    /\ ret[1].minType = Num(2)

\* the version without its last two characters when it reads major.minor.0,
\* the version itself in every other case
Canonical(version) ==
    LET len == Len(version)
    IN  IF /\ len >= 5
           /\ SubSeq(version, len - 1, len) = <<".", "0">>
           /\ \E a \in 1..(len - 4) :
                /\ IsDigits(SubSeq(version, 1, a))
                /\ version[a + 1] = "."
                /\ IsDigits(SubSeq(version, a + 2, len - 2))
        THEN SubSeq(version, 1, len - 2)
        ELSE version

\* C7: the zip target is the version with a trailing ".0" patch component
\* removed when the version reads major.minor.0, and the version unchanged in
\* every other case.
C7_ZipVersion == Returned("zipVersion") => ret[1] = Canonical(arg)

\* ------------------------------------------------------------------------
\* Properties of the session (checked under Spec)
\* ------------------------------------------------------------------------

\* the elements of list in the order of their first occurrence
RECURSIVE FirstOccurrences(_)
FirstOccurrences(list) ==
    IF list = <<>> THEN <<>>
    ELSE LET front == FirstOccurrences(SubSeq(list, 1, Len(list) - 1))
             last == list[Len(list)]
         IN  IF last \in Range(front) THEN front ELSE Append(front, last)

\* the entry of the table at [suite][name]: <<>> when there is none
Entry(table, suite, name) ==
    IF Has(table, suite) /\ Has(Get(table, suite), name)
    THEN <<Get(Get(table, suite), name)>>
    ELSE <<>>

Occurrences(object, key) == Cardinality({j \in 1..Len(object) : object[j][1] = key})

CallsOf(op, what) == {j \in 1..Len(calls) : calls[j].op = op /\ calls[j].arg = what}

Stopped == CallsOf("runShellScript", "npm run wp-env stop") # {}

C1_TableState ==
    pc = "Done" /\ args.branches # <<>> =>
        /\ Keys(results) = testSuites
        /\ \A s \in 1..Len(results) :
              /\ \A name \in Range(args.branches) : Occurrences(results[s][2], name) = 1
              /\ Keys(results[s][2]) = FirstOccurrences(args.branches)

\* a step changes no entry of the table except, when runTestSuite returns,
\* the entry of the suite and the branch the loops are at
C1_OtherBranchesKept ==
    \A suite \in Range(testSuites), name \in BranchNames :
        (pc = "return" /\ name = branch /\ suite = testSuite)
            \/ Entry(results', suite, name) = Entry(results, suite, name)

\* C1: for a non-empty branch list, a session that completes has exactly one
\* entry at [suite][branch] for each of the two suites and each input branch,
\* the keys in the order the pairs were processed, and inserting the entry of
\* one branch never changes an entry recorded for another branch.
C1_Table ==
    /\ []C1_TableState
    /\ [][C1_OtherBranchesKept]_vars

C1_Witness ==
    /\ pc = "Done"
    /\ args.branches = <<"feature", "trunk">>
    /\ Entry(results, "post-editor", "feature") # Entry(results, "post-editor", "trunk")
    /\ Entry(results, "site-editor", "trunk") # <<>>

SetUpCalls ==
    {j \in 1..Len(calls) :
        calls[j].op = "runShellScript" /\ calls[j].dir = "env"
            /\ calls[j].arg \notin {"npm run wp-env start", "npm run wp-env stop"}}

\* C2: called with an empty branch list, runPerformanceTests goes on with the
\* single branch trunk: setUpGitBranch runs once, and at the end every suite
\* of the table has exactly one branch key.
C2_EmptyDefaults ==
    args.branches = <<>> =>
        /\ pc # "start" => branches = <<"trunk">>
        /\ Cardinality(SetUpCalls) <= 1
        /\ Cardinality(CallsOf("discardLocalChanges", "")) <= 1
        /\ \A j \in 1..Len(calls) :
              calls[j].op = "checkoutRemoteBranch" /\ calls[j].dir = "env"
                  => calls[j].arg = "trunk"
        /\ pc = "Done" =>
              /\ Cardinality(SetUpCalls) = 1
              /\ Keys(results) = testSuites
              /\ \A s \in 1..Len(results) : Len(results[s][2]) = 1

C2_Witness ==
    /\ pc = "Done"
    /\ args.branches = <<>>
    /\ Keys(results) = testSuites
    /\ Keys(results[1][2]) = <<"trunk">>

SetUpFailed == error \in {"discard", "checkout", "build"}

\* the statement of C3 as it was made: after a failed setUpGitBranch for the
\* branch at branchIdx the table has no key of that branch or of a later one
C3_Original ==
    SetUpFailed =>
        /\ ~Stopped
        /\ \A s \in 1..Len(results), j \in branchIdx..Len(branches) :
              ~Has(results[s][2], branches[j])

C3_FailedState ==
    SetUpFailed =>
        /\ pc = "Failed"
        /\ ~Stopped
        /\ running
        /\ \A s \in 1..Len(results) :
              Keys(results[s][2]) = FirstOccurrences(SubSeq(branches, 1, branchIdx - 1))

\* C3 (amended): if a step of setUpGitBranch fails for the branch at position
\* k of the input, then from there on the table holds exactly the keys of the
\* branches at positions before k (no entry was inserted for position k or a
\* later one), its entries are unchanged, no further step runs, and
\* 'wp-env stop' is never executed.
C3_SetUpFailure ==
    /\ []C3_FailedState
    /\ [][SetUpFailed' => results' = results]_vars
    /\ [][~SetUpFailed]_vars

C3_Witness ==
    /\ error = "build"
    /\ pc = "Failed"
    /\ branches = <<"trunk", "feature">>
    /\ branchIdx = 2
    /\ Entry(results, "site-editor", "trunk") # <<>>
    /\ Entry(results, "post-editor", "feature") = <<>>

\* C8: without the ci option no external resource is touched before the
\* confirmation was asked and granted; with the ci option the confirmation is
\* never asked.
C8_ConfirmFirst ==
    /\ ~args.options.ci =>
          \A j \in 1..Len(calls) :
              calls[j].op # "askForConfirmation" =>
                  /\ answer = "yes"
                  /\ \E h \in 1..(j - 1) : calls[h].op = "askForConfirmation"
    /\ args.options.ci =>
          \A j \in 1..Len(calls) : calls[j].op # "askForConfirmation"

SuiteRunFailed == error \in {"test", "read"}

C9_FailedState ==
    SuiteRunFailed =>
        /\ pc = "Failed"
        /\ ~calls[Len(calls)].ok
        /\ calls[Len(calls)].op \in {"runShellScript", "readJSONFile"}
        /\ \A j \in 1..(Len(calls) - 1) : calls[j].ok
        /\ Len(curated) = i /\ i < Repeats
        /\ (\A j \in 1..(branchIdx - 1) : branches[j] # branch)
              => Entry(results, testSuite, branch) = <<>>

\* C9: if the test executor or the read of the result file fails in any
\* repeat, runTestSuite fails as a whole: no further repeat or retry is
\* started and nothing is inserted into the table for that pair.
C9_SuiteFailure ==
    /\ []C9_FailedState
    /\ [][SuiteRunFailed' => results' = results]_vars
    /\ [][~SuiteRunFailed]_vars

C9_Witness ==
    /\ error = "read"
    /\ pc = "Failed"
    /\ i = 1
    /\ Len(curated) = 1
    /\ branchIdx = 1
    /\ Entry(results, testSuite, branch) = <<>>

\* C10: in an execution in which any step fails no artifact has been written
\* and no table has been rendered.
C10_NoPartialResults == error # "" => artifacts = <<>> /\ rendered = <<>>

\* ------------------------------------------------------------------------
\* Empty sequences (checked under SpecUnit)
\* ------------------------------------------------------------------------

HasEmptySequence(raw) == \E key \in Range(RawKeys) : raw[key] = <<>>

\* the statement of C11 as it was made: curateResults returns nothing for a
\* raw sample with an empty sequence
C11_Original == Returned("curateResults") => ~HasEmptySequence(arg)

\* C11 (amended): curateResults applied to a raw sample in which a metric's
\* sequence is empty does not fail: it returns all 13 entries, with NaN for
\* that metric's mean, Infinity for its minimum and -Infinity for its maximum
\* and finite values for the metrics whose sequences are not empty; the
\* medians runTestSuite takes of three such results are these non-finite
\* values again.
C11_EmptyCurated ==
    Returned("curateResults") =>
        /\ DOMAIN ret[1] = Range(CuratedKeys)
        /\ arg.load = <<>> <=> IsNaN(ret[1].load)
        /\ arg.load # <<>> => isFinite(ret[1].load)
        /\ \A key \in DistributionKeys :
              IF arg[key] = <<>>
              THEN /\ ret[1][key] = NaN
                   /\ ret[1][MinKey(key)] = PosInf
                   /\ ret[1][MaxKey(key)] = NegInf
                   /\ LET reduced == summarize(<<ret[1], ret[1], ret[1]>>)
                      IN  /\ reduced[key] = NaN
                          /\ reduced[MinKey(key)] = PosInf
                          /\ reduced[MaxKey(key)] = NegInf
              ELSE /\ isFinite(ret[1][key])
                   /\ isFinite(ret[1][MinKey(key)])
                   /\ isFinite(ret[1][MaxKey(key)])

C11_Witness ==
    /\ Returned("curateResults")
    /\ arg.type = <<>>
    /\ arg.focus = <<Num(7), Num(2)>>
    /\ ret[1].type = NaN
    /\ ret[1].minType = PosInf
    /\ ret[1].maxFocus = Num(7)

\* ------------------------------------------------------------------------
\* Order of minimum, mean and maximum (checked under SpecUnit)
\* ------------------------------------------------------------------------

\* C20: in a SuiteResult made from raw samples with non-empty sequences every
\* distribution metric M has minM <= M <= maxM: the order that holds in each
\* curated result survives the per-metric median of the runs and the rounding.
C20_MinMeanMax ==
    Returned("summarize") =>
        \A key \in DistributionKeys :
            /\ Leq(ret[1][MinKey(key)], ret[1][key])
            /\ Leq(ret[1][key], ret[1][MaxKey(key)])

\* a reduction in which the median of a mean and the median of its minimum come
\* from different runs
C20_Witness ==
    /\ Returned("summarize")
    /\ \E key \in DistributionKeys :
          /\ \A j \in 1..Len(arg) :
                ~(/\ formatTime(arg[j][key]) = ret[1][key]
                  /\ formatTime(arg[j][MinKey(key)]) = ret[1][MinKey(key)]
                  /\ formatTime(arg[j][MaxKey(key)]) = ret[1][MaxKey(key)])
          /\ Less(ret[1][MinKey(key)], ret[1][key])

\* ------------------------------------------------------------------------
\* setUpGitBranch: discard, checkout, rebuild
\* ------------------------------------------------------------------------

IsDiscard(c) == c.op = "discardLocalChanges"
IsBranchCheckout(c) == c.op = "checkoutRemoteBranch" /\ c.dir = "env"
IsBuild(c) ==
    /\ c.op = "runShellScript"
    /\ c.arg = "rm -rf node_modules packages/*/node_modules && npm install && npm run build"

Discards == {j \in 1..Len(calls) : IsDiscard(calls[j])}
BranchCheckouts == {j \in 1..Len(calls) : IsBranchCheckout(calls[j])}
Builds == {j \in 1..Len(calls) : IsBuild(calls[j])}

\* the number of branches whose set-up has been started
SetUpsStarted ==
    IF pc \in {"start", "confirm", "clone", "testsBranch", "install", "copy",
               "readConf", "writeConf", "start-env"} THEN 0
    ELSE IF pc = "discard" THEN branchIdx - 1
    ELSE IF pc = "Failed" THEN Cardinality(Discards)
    ELSE IF pc \in {"checkout", "build", "test", "read", "return"} THEN branchIdx
    ELSE Len(branches)

\* C12: setUpGitBranch discards the local changes, checks the branch out and
\* rebuilds, in this order and with nothing in between; the checkout runs
\* only after a successful discard and the rebuild only after a successful
\* checkout of that branch; a failed step is the last call of the session;
\* and the rebuild runs once per input branch, the k-th one for branches[k].
C12_SetUpOrder ==
    LET discards == Discards
        checkouts == BranchCheckouts
        builds == Builds
    IN  /\ \A j \in checkouts :
              j > 1 /\ IsDiscard(calls[j - 1]) /\ calls[j - 1].ok
        /\ \A j \in builds :
              /\ j > 2
              /\ IsBranchCheckout(calls[j - 1]) /\ calls[j - 1].ok
              /\ IsDiscard(calls[j - 2]) /\ calls[j - 2].ok
        /\ \A j \in discards \cup checkouts \cup builds :
              ~calls[j].ok => j = Len(calls) /\ pc = "Failed"
        /\ \A j \in discards :
              calls[j].ok /\ j < Len(calls) => IsBranchCheckout(calls[j + 1])
        /\ \A j \in checkouts :
              calls[j].ok /\ j < Len(calls) => IsBuild(calls[j + 1])
        /\ Cardinality(discards) = SetUpsStarted
        /\ Cardinality(builds) <= Cardinality(checkouts)
        /\ Cardinality(checkouts) <= Cardinality(discards)
        /\ Cardinality(discards) <= Cardinality(builds) + 1
        /\ \A j \in checkouts :
              calls[j].arg = branches[Cardinality({h \in checkouts : h <= j})]
        /\ pc \in {"stop", "report", "write", "Done"} =>
              Cardinality({j \in builds : calls[j].ok}) = Len(branches)

\* both branches of a two-branch session were set up, and the session ended
C12_Witness ==
    /\ pc = "Done"
    /\ Len(branches) = 2
    /\ Cardinality(Builds) = 2
    /\ \E j \in BranchCheckouts : calls[j].arg = branches[2]

\* ------------------------------------------------------------------------
\* The order of the branch loop and the suite loop
\* ------------------------------------------------------------------------

Tests ==
    {j \in 1..Len(calls) :
        calls[j].op = "runShellScript" /\ calls[j].arg \in {<<"npm run test-performance", suite>> :
                             suite \in {"post-editor", "site-editor"}}}

InSetUp == pc \in {"discard", "checkout", "build"} \/ SetUpFailed
InSuite == pc \in {"test", "read", "return"} \/ SuiteRunFailed

\* C13: the pairs are processed one after the other, the branches in input
\* order and for each branch post-editor before site-editor: the k-th run of
\* the test executor belongs to the pair its position says, and runs after
\* the set-up of that branch and before the set-up of the next one; a
\* set-up begins only when all suites of all earlier branches have run in
\* full and their entries are in the table.
C13_Sequential ==
    LET tests == Tests
        discards == Discards
        builds == Builds
    IN  /\ \A j \in tests :
              LET k == Cardinality({h \in tests : h <= j})
                  pair == (k - 1) \div Repeats
                  b == (pair \div 2) + 1
              IN  /\ calls[j].arg[2] = IF pair % 2 = 0 THEN "post-editor" ELSE "site-editor"
                  /\ Cardinality({h \in builds : h < j /\ calls[h].ok}) = b
                  /\ Cardinality({h \in discards : h < j}) = b
        /\ \A j \in discards :
              Cardinality({h \in tests : h < j /\ calls[h].ok})
                  = 2 * Repeats * (Cardinality({h \in discards : h <= j}) - 1)
        /\ InSuite => checkout.env = branch
        /\ InSetUp =>
              /\ \A b \in 1..(branchIdx - 1) :
                    /\ Entry(results, "post-editor", branches[b]) # <<>>
                    /\ Entry(results, "site-editor", branches[b]) # <<>>
              /\ Len(curated) = 0
        /\ InSuite /\ suiteIdx = 2 => Entry(results, "post-editor", branch) # <<>>
        /\ InSuite /\ suiteIdx = 1 /\ branchIdx = 1 => results = <<>>
        /\ Keys(results) \in {<<>>, <<"post-editor">>, <<"post-editor", "site-editor">>}

\* the set-up of the second branch is about to begin: the six runs of the
\* first branch are over and its two entries are in the table
C13_Witness ==
    /\ pc = "discard"
    /\ branchIdx = 2
    /\ branches = <<"feature", "trunk">>
    /\ Cardinality(Tests) = 6
    /\ Entry(results, "site-editor", "feature") # <<>>

\* ------------------------------------------------------------------------
\* The repeats of runTestSuite
\* ------------------------------------------------------------------------

Reads ==
    {j \in 1..Len(calls) :
        calls[j].op = "readJSONFile" /\ calls[j].arg \in {<<suite, ".test.results.json">> :
                             suite \in {"post-editor", "site-editor"}}}

\* the number of pairs runTestSuite has returned for
PairsDone ==
    IF InSetUp \/ InSuite THEN 2 * (branchIdx - 1) + (suiteIdx - 1)
    ELSE IF pc \in {"stop", "report", "write", "Done"} \/ error \in {"stop", "report", "write"}
         THEN 2 * Len(branches)
    ELSE 0

C14_RepeatsState ==
    LET tests == Tests
        reads == Reads
    IN  /\ \A j \in tests :
              /\ ~calls[j].ok => j = Len(calls)
              /\ calls[j].ok /\ j < Len(calls) =>
                    /\ j + 1 \in reads
                    /\ calls[j + 1].arg[1] = calls[j].arg[2]
        /\ \A j \in reads :
              /\ j - 1 \in tests /\ calls[j - 1].ok
              /\ ~calls[j].ok => j = Len(calls)
        /\ Len(curated) = i
        /\ Cardinality({j \in reads : calls[j].ok}) = 3 * PairsDone + Len(curated)
        /\ pc = "return" => Len(curated) = 3
        /\ pc \in {"test", "read"} => Len(curated) < 3
        /\ pc \notin {"test", "read", "return", "Failed"} => curated = <<>>
        /\ Cardinality(tests) <= 6 * Len(branches)
        /\ pc \in {"stop", "report", "write", "Done"} =>
              /\ Cardinality(tests) = 6 * Len(branches)
              /\ Cardinality(reads) = 6 * Len(branches)

\* the table changes only by the medians of three curated results
C14_MedianOfThree ==
    results' # results =>
        /\ Len(curated) = 3
        /\ Entry(results', testSuite, branch) = <<summarize(curated)>>

\* C14: for every pair the test executor runs exactly three times, each run
\* directly followed by the read of the result file, whose curation is kept;
\* the medians are computed, and the entry inserted, only when the three
\* curated results are there; a session over n branches that leaves the
\* loop has run the executor 6n times.
C14_ThreeRuns ==
    /\ []C14_RepeatsState
    /\ [][C14_MedianOfThree]_vars

C14_Witness ==
    /\ pc = "Done"
    /\ Len(branches) = 2
    /\ Cardinality(Tests) = 12
    /\ Cardinality({j \in Reads : calls[j].ok}) = 12

\* ------------------------------------------------------------------------
\* The phases of a session
\* ------------------------------------------------------------------------

Phases ==
    <<"Idle", "Confirmed", "EnvironmentReady", "BranchPreparing", "SuitesRunning",
      "EnvironmentStopped", "Reported", "Done">>

\* the phase a session is in, by the step it is at
PhaseAt(at, bidx, shown) ==
    IF at \in {"start", "confirm"} THEN "Idle"
    ELSE IF at \in {"clone", "testsBranch", "install", "copy", "readConf",
                    "writeConf", "start-env"} THEN "Confirmed"
    ELSE IF at = "discard" /\ bidx = 1 THEN "EnvironmentReady"
    ELSE IF at \in {"discard", "checkout", "build"} THEN "BranchPreparing"
    ELSE IF at \in {"test", "read", "return", "stop"} THEN "SuitesRunning"
    ELSE IF at = "report" /\ shown = <<>> THEN "EnvironmentStopped"
    ELSE IF at \in {"report", "write"} THEN "Reported"
    ELSE at

Rank(phase) == CHOOSE r \in 1..Len(Phases) : Phases[r] = phase

\* the number of the step a session is at, counted along a run without failure
StepsPerSuite == 2 * Repeats + 1
StepsPerBranch == 3 + 2 * StepsPerSuite
StepNumber(at, bidx, sidx, count, n) ==
    IF at = "start" THEN 0
    ELSE IF at = "confirm" THEN 1
    ELSE IF at = "clone" THEN 2
    ELSE IF at = "testsBranch" THEN 3
    ELSE IF at = "install" THEN 4
    ELSE IF at = "copy" THEN 5
    ELSE IF at = "readConf" THEN 6
    ELSE IF at = "writeConf" THEN 7
    ELSE IF at = "start-env" THEN 8
    ELSE IF at \in {"discard", "checkout", "build", "test", "read", "return"}
         THEN 9 + (bidx - 1) * StepsPerBranch
                + (IF at = "discard" THEN 0
                   ELSE IF at = "checkout" THEN 1
                   ELSE IF at = "build" THEN 2
                   ELSE 3 + (sidx - 1) * StepsPerSuite
                          + (IF at = "test" THEN 2 * count
                             ELSE IF at = "read" THEN 2 * count + 1
                             ELSE 2 * Repeats))
    ELSE 9 + n * StepsPerBranch
           + (IF at = "stop" THEN 0
              ELSE IF at = "report" THEN 1 + 2 * (sidx - 1)
              ELSE IF at = "write" THEN 2 + 2 * (sidx - 1)
              ELSE 5)

C15_FailedState ==
    /\ pc = "Failed" <=> error # ""
    /\ \A j \in 1..(Len(calls) - 1) : calls[j].ok
    /\ pc # "Failed" => \A j \in 1..Len(calls) : calls[j].ok

C15_Forward ==
    pc' # pc \/ calls' # calls =>
        \/ /\ pc' = "Failed"
           /\ error' # ""
           /\ (calls' = calls /\ pc = "report")
                 \/ (Len(calls') = Len(calls) + 1 /\ ~calls'[Len(calls')].ok)
        \/ /\ pc' # "Failed"
           /\ error' = ""
           /\ LET from == Rank(PhaseAt(pc, branchIdx, rendered))
                  to == Rank(PhaseAt(pc', branchIdx', rendered'))
              IN  \/ to \in {from, from + 1}
                  \/ /\ Phases[from] = "SuitesRunning"
                     /\ Phases[to] = "BranchPreparing"
                     /\ branchIdx' = branchIdx + 1
           /\ StepNumber(pc', branchIdx', suiteIdx', i', Len(branches'))
                 > StepNumber(pc, branchIdx, suiteIdx, i, Len(branches))

\* C15: a step either takes the session forward, to the same or to the next
\* phase of Idle, Confirmed, EnvironmentReady, BranchPreparing,
\* SuitesRunning, EnvironmentStopped, Reported, Done (from SuitesRunning to
\* BranchPreparing for the next branch) and to a later step, or it fails and
\* takes the session to Failed; only the last call of a session can have
\* failed, and from Failed, as from Done, no step is taken.
C15_Phases ==
    /\ []C15_FailedState
    /\ [][C15_Forward]_vars
    /\ [][pc # "Failed" /\ pc # "Done"]_vars

\* a session that failed in the suite loop of its second branch, having
\* passed through every phase before
C15_Witness ==
    /\ pc = "Failed"
    /\ error = "test"
    /\ branchIdx = 2
    /\ suiteIdx = 2
    /\ ~calls[Len(calls)].ok

\* ------------------------------------------------------------------------
\* The stop of the environment
\* ------------------------------------------------------------------------

Stops == {j \in 1..Len(calls) : calls[j].dir = "env" /\ calls[j].arg = "npm run wp-env stop"}
Starts == {j \in 1..Len(calls) : calls[j].dir = "env" /\ calls[j].arg = "npm run wp-env start"}
ArtifactWrites ==
    {j \in 1..Len(calls) :
        calls[j].op = "writeFileSync" /\ calls[j].arg \in {<<suite, "-performance-results.json">> :
                             suite \in {"post-editor", "site-editor"}}}

LoopEnded == pc = "stop"
AfterStop == pc \in {"report", "write", "Done"} \/ error \in {"stop", "report", "write"}

C16_StopState ==
    LET stops == Stops
        starts == Starts
        writes == ArtifactWrites
    IN  /\ Cardinality(stops) <= 1
        /\ LoopEnded =>
              /\ stops = {}
              /\ running
              /\ \E j \in starts : calls[j].ok
              /\ \A b \in 1..Len(branches) :
                    /\ Entry(results, "post-editor", branches[b]) # <<>>
                    /\ Entry(results, "site-editor", branches[b]) # <<>>
              /\ rendered = <<>> /\ artifacts = <<>> /\ writes = {}
        /\ AfterStop <=> Cardinality(stops) = 1
        /\ \A j \in stops :
              /\ \A h \in starts \cup Discards \cup Builds \cup Tests \cup Reads : h < j
              /\ \A h \in writes : j < h
              /\ Cardinality({h \in Tests : calls[h].ok}) = 6 * Len(branches)
        /\ rendered # <<>> \/ artifacts # <<>> =>
              /\ \E j \in stops : calls[j].ok
              /\ ~running

\* C16: when the branch loop has ended, with the environment started and
\* every entry inserted, the step that follows is the execution of
\* 'wp-env stop', and it is executed once in the whole session: after every set-up, run and read and after the last
\* insertion into the table, and before any table is rendered and any
\* artifact written.
C16_StopOnce ==
    /\ []C16_StopState
    /\ [][results' # results => Stops = {} /\ Stops' = {}]_vars
    /\ [][rendered' # rendered \/ artifacts' # artifacts => Stops # {}]_vars
    /\ [](LoopEnded => ENABLED StopEnv)
    /\ [][LoopEnded => Cardinality(Stops') = 1]_vars

C16_Witness ==
    /\ pc = "Done"
    /\ Len(branches) = 2
    /\ Cardinality(Stops) = 1
    /\ Len(rendered) = 2
    /\ Len(artifacts) = 2
    /\ ~running

\* ------------------------------------------------------------------------
\* The two trees
\* ------------------------------------------------------------------------

\* the calls of the branch loop: those from the first discard on, up to the
\* stop of the environment
LoopCalls ==
    LET discards == Discards
        stops == Stops
    IN  IF discards = {} THEN {}
        ELSE LET first == CHOOSE j \in discards : \A h \in discards : j <= h
                 last == IF stops = {} THEN Len(calls)
                         ELSE (CHOOSE j \in stops : TRUE) - 1
             IN  first..last

\* the branch the test-definitions checkout is on once it is set up
TestsCheckout ==
    IF args.options.testsBranch # "" THEN args.options.testsBranch ELSE "trunk"

InLoop == InSetUp \/ InSuite

C17_TreesState ==
    /\ LET runs == Tests \cup Reads
       IN  \A j \in LoopCalls :
             /\ calls[j].op \in {"discardLocalChanges", "checkoutRemoteBranch"}
                   => calls[j].dir = "env"
             /\ IsBuild(calls[j]) => calls[j].dir = "env"
             /\ j \in runs => calls[j].dir = "perf"
    /\ InLoop \/ LoopEnded \/ AfterStop => checkout.perf = TestsCheckout
    /\ InSuite \/ pc = "stop" => checkout.env \in Range(branches)

\* C17: in the branch loop every discard, checkout and rebuild is made in
\* the environment tree, the same for every branch, and the runs and reads
\* are made in the test-definitions checkout; from the first set-up on, no
\* step changes the branch of the test-definitions checkout, which is the
\* tests-source branch when one was requested and trunk otherwise.
C17_Isolated ==
    /\ []C17_TreesState
    /\ [][InLoop => checkout'.perf = checkout.perf]_vars

\* the environment tree is on the second branch while the test-definitions
\* checkout is still on the tests-source branch
C17_Witness ==
    /\ pc = "test"
    /\ branches = <<"trunk", "feature">>
    /\ branchIdx = 2
    /\ args.options.testsBranch = "tests"
    /\ checkout.perf = "tests"
    /\ checkout.env = "feature"

\* ------------------------------------------------------------------------
\* The report: the displayed table and the artifact
\* ------------------------------------------------------------------------

\* the displayed table of a suite agrees with the branch-keyed mapping
IsDisplayOf(table, byBranch) ==
    /\ Keys(table) = CuratedKeys
    /\ \A m \in 1..Len(table) :
          LET metric == table[m][1]
              row == table[m][2]
          IN  /\ \A name \in Range(Keys(row)) : Has(byBranch, name)
              /\ \A name \in Range(Keys(byBranch)) :
                    LET value == Get(byBranch, name)[metric]
                    IN  /\ Has(row, name) <=> value.k = "fin"
                        /\ Has(row, name) => Get(row, name) = <<value, "ms">>

\* the artifact of a suite is the branch-keyed mapping, every key kept
IsArtifactOf(content, byBranch) ==
    /\ Keys(content) = Keys(byBranch)
    /\ \A j \in 1..Len(content) :
          /\ DOMAIN content[j][2] = Range(CuratedKeys)
          /\ Cardinality(DOMAIN content[j][2]) = 13
          /\ \A metric \in Range(CuratedKeys) :
                LET value == byBranch[j][2][metric]
                IN  content[j][2][metric] = IF value.k = "fin" THEN value ELSE Null

\* C18: the table displayed for a suite has all 13 metric rows and in them
\* a cell at (metric, branch), the value with its unit, exactly when the
\* value at [suite][branch][metric] is finite; the artifact of the suite is
\* the mapping keyed by branch, with all 13 metric keys for every branch,
\* also those whose value is not finite.
C18_Report ==
    /\ \A r \in 1..Len(rendered) :
          /\ rendered[r][1] = testSuites[r]
          /\ IsDisplayOf(rendered[r][2], Get(results, rendered[r][1]))
    /\ \A a \in 1..Len(artifacts) :
          /\ artifacts[a][1] = <<testSuites[a], "-performance-results.json">>
          /\ IsArtifactOf(artifacts[a][2], Get(results, testSuites[a]))

\* the site-editor table has a row with a cell for one of the two branches
\* only, and the artifact has the 13 keys for both
C18_Witness ==
    /\ pc = "Done"
    /\ Len(artifacts) = 2
    /\ Len(artifacts[2][2]) = 2
    /\ \E m \in 1..Len(rendered[2][2]) : Len(rendered[2][2][m][2]) = 1
    /\ \E j \in 1..2, metric \in Range(CuratedKeys) : artifacts[2][2][j][2][metric] = Null

\* ------------------------------------------------------------------------
\* Entries once inserted
\* ------------------------------------------------------------------------

EntryKept ==
    \A suite \in {"post-editor", "site-editor"}, name \in BranchNames :
        Entry(results, suite, name) # <<>>
            => Entry(results', suite, name) = Entry(results, suite, name)

\* C19: once an entry has been inserted at [suite][branch], no step of the
\* session changes or removes it, whatever the branch list, also one in
\* which a branch name occurs twice.
C19_NeverOverwritten == [][EntryKept]_vars


====
